---------------------------- MODULE Spec2Model ----------------------------
(***************************************************************************)
(* A model of package enumhelper (chronos-tachyon/enumhelper): the         *)
(* bitfield engine (MakeBitfieldType, ToGoString, ToString, parseItem,     *)
(* FromString, ToJSON, FromJSON) and the enum table helpers (ParseEnum,    *)
(* MarshalEnumToJSON, UnmarshalEnumFromJSON).                              *)
(*                                                                         *)
(* Representation.                                                         *)
(*   - A Go string or []byte is a sequence of one-character strings.       *)
(*   - A uint64 (and a uint, 64 bits wide on the platforms modelled) is    *)
(*     the set of the positions 0..63 of its one bits, so that | is \cup,  *)
(*     & is \cap and (1 << index) is {index}; no value is ever truncated.  *)
(*   - A Go error is a record with a "kind" field; nil is NoError.         *)
(*   - A *AnnotatedBitfieldData held by ByName is the index of the slot    *)
(*     of Data it points to.                                               *)
(***************************************************************************)
EXTENDS Integers, Sequences, FiniteSets

VARIABLES subject, bitfield, call

vars == <<subject, bitfield, call>>

-----------------------------------------------------------------------------
(* Bounds of the model.                                                    *)

\* longest descriptor table / row table drawn as an input
MaxLen == 2
\* most '|'-separated pieces in a composite string given to FromString
MaxPieces == 2

-----------------------------------------------------------------------------
(* Strings: package strings.                                               *)

UpperChars == <<"A","B","C","D","E","F","G","H","I","J","K","L","M",
                "N","O","P","Q","R","S","T","U","V","W","X","Y","Z">>
LowerChars == <<"a","b","c","d","e","f","g","h","i","j","k","l","m",
                "n","o","p","q","r","s","t","u","v","w","x","y","z">>

\* the lower-case form of one ASCII character
lower(c) ==
    IF \E i \in 1..Len(UpperChars) : UpperChars[i] = c
    THEN LowerChars[CHOOSE i \in 1..Len(UpperChars) : UpperChars[i] = c]
    ELSE c

RECURSIVE ToLower(_)
\* strings.ToLower, on ASCII
ToLower(s) == IF s = <<>> THEN <<>> ELSE <<lower(Head(s))>> \o ToLower(Tail(s))

\* strings.EqualFold, on ASCII: equality under simple case folding
EqualFold(s, t) == ToLower(s) = ToLower(t)

HasPrefix(s, prefix) ==
    /\ Len(s) >= Len(prefix)
    /\ \A i \in 1..Len(prefix) : s[i] = prefix[i]

HasSuffix(s, suffix) ==
    /\ Len(s) >= Len(suffix)
    /\ \A i \in 1..Len(suffix) : s[Len(s) - Len(suffix) + i] = suffix[i]

\* the Go slice expression s[i:j], 0-based and half-open
Slice(s, i, j) == IF j <= i THEN <<>> ELSE SubSeq(s, i + 1, j)

RECURSIVE Join(_, _)
\* strings.Join(pieces, sep)
Join(pieces, sep) ==
    IF pieces = <<>> THEN <<>>
    ELSE IF Len(pieces) = 1 THEN pieces[1]
    ELSE pieces[1] \o sep \o Join(Tail(pieces), sep)

RECURSIVE Split(_, _)
\* strings.Split(s, sep) for a one-character sep: always at least one piece
Split(s, sep) ==
    IF \E i \in 1..Len(s) : s[i] = sep
    THEN LET i == CHOOSE k \in 1..Len(s) :
                      s[k] = sep /\ \A m \in 1..(k - 1) : s[m] # sep
         IN <<Slice(s, 0, i - 1)>> \o Split(Slice(s, i, Len(s)), sep)
    ELSE <<s>>

-----------------------------------------------------------------------------
(* uint64 and package strconv.                                             *)

\* the width of uint64, and of the Data table of a BitfieldType
NumBits == 64

Uint64 == SUBSET (0..(NumBits - 1))

RECURSIVE Pow2(_)
Pow2(k) == IF k = 0 THEN 1 ELSE 2 * Pow2(k - 1)

\* the uint value of a small natural number (a slice index or length)
NatToBits(n) == {k \in 0..30 : (n \div Pow2(k)) % 2 = 1}

\* num >= limit for a uint num and a slice length limit
UintGE(num, limit) ==
    \/ \E k \in num : k > 30
    \/ LET RECURSIVE Sum(_)
           Sum(S) == IF S = {} THEN 0
                     ELSE LET k == CHOOSE x \in S : TRUE
                          IN Pow2(k) + Sum(S \ {k})
       IN Sum(num) >= limit

HexDigits == <<"0","1","2","3","4","5","6","7","8","9","a","b","c","d","e","f">>

\* the value 0..15 of the hexadecimal digit at position n (bits 4n..4n+3)
Nibble(u, n) ==
    (IF 4 * n \in u THEN 1 ELSE 0) + (IF 4 * n + 1 \in u THEN 2 ELSE 0)
    + (IF 4 * n + 2 \in u THEN 4 ELSE 0) + (IF 4 * n + 3 \in u THEN 8 ELSE 0)

RECURSIVE HexFrom(_, _)
\* the digits of positions n, n-1, ..., 0
HexFrom(u, n) ==
    IF n < 0 THEN <<>>
    ELSE <<HexDigits[Nibble(u, n) + 1]>> \o HexFrom(u, n - 1)

\* strconv.FormatUint(u, 16): lower-case digits, no leading zeros
FormatUintHex(u) ==
    IF u = {} THEN <<"0">>
    ELSE LET top == CHOOSE n \in 0..((NumBits \div 4) - 1) :
                        /\ Nibble(u, n) # 0
                        /\ \A m \in (n + 1)..((NumBits \div 4) - 1) : Nibble(u, m) = 0
         IN HexFrom(u, top)

\* the value of a digit character in strconv.ParseUint, or 99 for a
\* character that is no digit in any base
DigitValue(c) ==
    LET lc == lower(c) IN
    IF \E i \in 1..10 : HexDigits[i] = c
    THEN (CHOOSE i \in 1..10 : HexDigits[i] = c) - 1
    ELSE IF \E i \in 1..Len(LowerChars) : LowerChars[i] = lc
    THEN (CHOOSE i \in 1..Len(LowerChars) : LowerChars[i] = lc) + 9
    ELSE 99

\* A uint64 under construction is four 16-bit limbs, least significant
\* first; MulAdd is n*base + d, with the carry out of bit 63.
MulAdd(limbs, base, d) ==
    LET t1 == limbs[1] * base + d
        t2 == limbs[2] * base + (t1 \div 65536)
        t3 == limbs[3] * base + (t2 \div 65536)
        t4 == limbs[4] * base + (t3 \div 65536)
    IN [limbs |-> <<t1 % 65536, t2 % 65536, t3 % 65536, t4 % 65536>>,
        carry |-> t4 \div 65536]

LimbsToBits(limbs) ==
    {k \in 0..(NumBits - 1) : (limbs[(k \div 16) + 1] \div Pow2(k % 16)) % 2 = 1}

RECURSIVE ParseDigits(_, _, _)
\* the digit loop of strconv.ParseUint: a syntax error on a character that
\* is no digit of the base, a range error when the value leaves uint64
ParseDigits(s, base, limbs) ==
    IF s = <<>> THEN [ok |-> TRUE, u |-> LimbsToBits(limbs)]
    ELSE LET d == DigitValue(Head(s)) IN
         IF d >= base THEN [ok |-> FALSE, u |-> {}]
         ELSE LET r == MulAdd(limbs, base, d) IN
              IF r.carry # 0 THEN [ok |-> FALSE, u |-> {}]
              ELSE ParseDigits(Tail(s), base, r.limbs)

\* strconv.ParseUint(s, base, 64) for base 10 and base 0 (the prefix picks
\* the base).  The digit separator '_' of base 0 is not modelled: no string
\* of the model holds it.
ParseUint(s, base) ==
    IF s = <<>> THEN [ok |-> FALSE, u |-> {}]
    ELSE IF base = 0 /\ s[1] = "0"
    THEN IF Len(s) >= 3 /\ lower(s[2]) = "b"
              THEN ParseDigits(Slice(s, 2, Len(s)), 2, <<0, 0, 0, 0>>)
         ELSE IF Len(s) >= 3 /\ lower(s[2]) = "o"
              THEN ParseDigits(Slice(s, 2, Len(s)), 8, <<0, 0, 0, 0>>)
         ELSE IF Len(s) >= 3 /\ lower(s[2]) = "x"
              THEN ParseDigits(Slice(s, 2, Len(s)), 16, <<0, 0, 0, 0>>)
         ELSE ParseDigits(Slice(s, 1, Len(s)), 8, <<0, 0, 0, 0>>)
    ELSE ParseDigits(s, 10, <<0, 0, 0, 0>>)

-----------------------------------------------------------------------------
(* Errors.                                                                 *)

NoError == [kind |-> "nil"]

IsNullError == [kind |-> "IsNullError"]

InvalidEnumNameError(type, name, allowed) ==
    [kind |-> "InvalidEnumNameError", Type |-> type, Name |-> name,
     Allowed |-> allowed]

InvalidEnumValueError(type, value, limit) ==
    [kind |-> "InvalidEnumValueError", Type |-> type, Value |-> value,
     Limit |-> limit]

InvalidBitfieldNameError(type, name, allowed) ==
    [kind |-> "InvalidBitfieldNameError", Type |-> type, Name |-> name,
     Allowed |-> allowed]

\* &multierror.Error{Errors: errors}
MultiError(errors) == [kind |-> "multierror.Error", Errors |-> errors]

\* panic(errors.New("[]byte is nil"))
NilBytesPanic == [kind |-> "panic", Value |-> "[]byte is nil"]

\* errors returned by encoding/json
SyntaxError == [kind |-> "json.SyntaxError"]
UnmarshalTypeError == [kind |-> "json.UnmarshalTypeError"]

\* IsNull: errors.As(err, &IsNullError{}), which also looks into the errors
\* a multierror wraps
IsNull(err) ==
    \/ err.kind = "IsNullError"
    \/ /\ err.kind = "multierror.Error"
       /\ \E i \in 1..Len(err.Errors) : err.Errors[i].kind = "IsNullError"

-----------------------------------------------------------------------------
(* Byte slices and package encoding/json.                                  *)

\* a nil []byte, as distinct from an empty one
NilBytes == <<"<nil>">>

nullBytes == <<"n", "u", "l", "l">>

Quote == "\""
Backslash == "\\"

\* Escape with a slip: nothing is escaped
Escape_None(s) == s

RECURSIVE Escape(_)
\* the body of a JSON string literal: json.Marshal escapes '"' and '\'
\* (its escapes of control characters, of <, > and & and of invalid UTF-8
\* concern characters no string of the model holds)
Escape(s) ==
    IF s = <<>> THEN <<>>
    ELSE IF Head(s) = Quote \/ Head(s) = Backslash
         THEN <<Backslash, Head(s)>> \o Escape(Tail(s))
         ELSE <<Head(s)>> \o Escape(Tail(s))

\* json.Marshal of a Go string
JSONMarshalString(s) == <<Quote>> \o Escape(s) \o <<Quote>>

RECURSIVE Unescape(_)
\* the decoded body of a JSON string literal, or the failure to scan it: a
\* bare '"' inside, a '\' at the end or before a character that starts no
\* escape.  Of the escapes only \" \\ and \/ are modelled.
Unescape(body) ==
    IF body = <<>> THEN [ok |-> TRUE, str |-> <<>>]
    ELSE IF Head(body) = Quote THEN [ok |-> FALSE, str |-> <<>>]
    ELSE IF Head(body) = Backslash
         THEN IF Len(body) >= 2 /\ body[2] \in {Quote, Backslash, "/"}
              THEN LET rest == Unescape(Slice(body, 2, Len(body)))
                   IN [ok |-> rest.ok, str |-> <<body[2]>> \o rest.str]
              ELSE [ok |-> FALSE, str |-> <<>>]
    ELSE LET rest == Unescape(Tail(body))
         IN [ok |-> rest.ok, str |-> <<Head(body)>> \o rest.str]

IsDigit(c) == \E i \in 1..10 : HexDigits[i] = c

\* What the JSON scanner finds in raw: a string literal, an unsigned integer
\* literal (no sign, fraction or exponent: "0" or a nonzero digit and more
\* digits), the literal null, or no JSON value at all.  Surrounding white
\* space, other numbers, true, false, arrays and objects are not modelled.
JSONKind(raw) ==
    IF raw = nullBytes THEN "null"
    ELSE IF Len(raw) >= 2 /\ raw[1] = Quote /\ raw[Len(raw)] = Quote
            /\ Unescape(Slice(raw, 1, Len(raw) - 1)).ok
         THEN "string"
    ELSE IF /\ raw # <<>>
            /\ \A i \in 1..Len(raw) : IsDigit(raw[i])
            /\ (raw[1] = "0" => Len(raw) = 1)
         THEN "number"
    ELSE "invalid"

\* json.Unmarshal(raw, &str) for var str string
JSONUnmarshalString(raw) ==
    LET kind == JSONKind(raw) IN
    IF kind = "string"
    THEN [err |-> NoError, str |-> Unescape(Slice(raw, 1, Len(raw) - 1)).str]
    ELSE IF kind = "null" THEN [err |-> NoError, str |-> <<>>]
    ELSE IF kind = "number" THEN [err |-> UnmarshalTypeError, str |-> <<>>]
    ELSE [err |-> SyntaxError, str |-> <<>>]

\* json.Unmarshal(raw, &num) for var num uint64 (or uint)
JSONUnmarshalUint(raw) ==
    LET kind == JSONKind(raw) IN
    IF kind = "number"
    THEN LET r == ParseUint(raw, 10)
         IN IF r.ok THEN [err |-> NoError, num |-> r.u]
            ELSE [err |-> UnmarshalTypeError, num |-> {}]
    ELSE IF kind = "null" THEN [err |-> NoError, num |-> {}]
    ELSE IF kind = "string" THEN [err |-> UnmarshalTypeError, num |-> {}]
    ELSE [err |-> SyntaxError, num |-> {}]

-----------------------------------------------------------------------------
(* The bitfield engine.                                                    *)

\* the zero value of BitfieldData
ZeroBitfieldData == [GoName |-> <<>>, Name |-> <<>>, Aliases |-> <<>>]

BitfieldData(goName, name, aliases) ==
    [GoName |-> goName, Name |-> name, Aliases |-> aliases]

\* &AnnotatedBitfieldData{BitfieldData: data, Index: index, Bit: (1 << index)}
AnnotatedBitfieldData(data, index) ==
    [GoName |-> data.GoName, Name |-> data.Name, Aliases |-> data.Aliases,
     Index |-> index, Bit |-> {index}]

\* the zero value of BitfieldType: what the variable holds before
\* MakeBitfieldType has run
ZeroBitfieldType == [Type |-> <<>>, Data |-> <<>>, Names |-> <<>>, ByName |-> <<>>]

\* m[k] = v on a Go map: a later write to the same key replaces the earlier
MapPut(m, k, v) == [x \in (DOMAIN m) \cup {k} |-> IF x = k THEN v ELSE m[x]]

\* out.ByName[key] = ptr; out.ByName[strings.ToLower(key)] = ptr
PutBoth(byName, key, ptr) == MapPut(MapPut(byName, key, ptr), ToLower(key), ptr)

RECURSIVE PutAliases(_, _, _)
\* for _, alias := range data.Aliases { ... }
PutAliases(byName, aliases, ptr) ==
    IF aliases = <<>> THEN byName
    ELSE PutAliases(PutBoth(byName, Head(aliases), ptr), Tail(aliases), ptr)

\* MakeSlot with a slip: the round does not stop at a slot without names,
\* so the aliases of an unnamed slot are registered
MakeSlot_NoSkip(out, in, index) ==
    LET data == in[index + 1]
        ptr == index
        name == IF data.Name = <<>> THEN data.GoName ELSE data.Name
        m0 == out.ByName
        m1 == IF data.GoName # <<>> THEN PutBoth(m0, data.GoName, ptr) ELSE m0
        m2 == IF data.Name # <<>> THEN PutBoth(m1, data.Name, ptr) ELSE m1
        m3 == PutAliases(m2, data.Aliases, ptr)
    IN [out EXCEPT !.Names = IF name = <<>> THEN @ ELSE Append(@, name),
                   !.ByName = m3]

\* One round of the loop of MakeBitfieldType, for a slot index < length:
\* what it does to Names and ByName.  (out.Data[index] = ptr is in
\* MakeBitfieldType below.)
MakeSlot(out, in, index) ==
    LET data == in[index + 1]
        ptr == index
    IN IF data.GoName = <<>> /\ data.Name = <<>> THEN out
       ELSE LET name == IF data.Name = <<>> THEN data.GoName ELSE data.Name
                m0 == out.ByName
                m1 == IF data.GoName # <<>> THEN PutBoth(m0, data.GoName, ptr) ELSE m0
                m2 == IF data.Name # <<>> THEN PutBoth(m1, data.Name, ptr) ELSE m1
                m3 == PutAliases(m2, data.Aliases, ptr)
            IN [out EXCEPT !.Names = Append(@, name), !.ByName = m3]

\* MakeBitfieldType(typeName, in).  Data gets its 64 entries, those at
\* index >= length with the zero BitfieldData.  The rounds of the loop for
\* index >= length end at "continue" (both names of the zero BitfieldData
\* are empty), so Names and ByName are what the rounds 0..length-1 leave.
MakeBitfieldType(typeName, in) ==
    LET length == IF Len(in) > NumBits THEN NumBits ELSE Len(in)
        start == [Type |-> typeName,
                  Data |-> [index \in 0..(NumBits - 1) |->
                               AnnotatedBitfieldData(
                                   IF index < length THEN in[index + 1]
                                   ELSE ZeroBitfieldData, index)],
                  Names |-> <<>>,
                  ByName |-> [x \in {} |-> 0]]
        loop[index \in 0..length] ==
            IF index = 0 THEN start
            ELSE MakeSlot(loop[index - 1], in, index - 1)
    IN loop[length]

\* the closure fn1 of ToGoString ("go") and of ToString ("str")
Fn1(form, data) == IF form = "go" THEN data.GoName ELSE data.Name

\* Fn2 with a slip: the display form of a nonzero remnant lacks its "0x"
Fn2_NoPrefix(b, form, remnant) ==
    IF form = "go"
    THEN IF remnant = {} THEN b.Type \o <<"(", "0", ")">>
         ELSE b.Type \o <<"(", "0", "x">> \o FormatUintHex(remnant) \o <<")">>
    ELSE IF remnant = {} THEN <<"0">>
         ELSE FormatUintHex(remnant)

\* the closure fn2 of ToGoString ("go") and of ToString ("str")
Fn2(b, form, remnant) ==
    IF form = "go"
    THEN IF remnant = {} THEN b.Type \o <<"(", "0", ")">>
         ELSE b.Type \o <<"(", "0", "x">> \o FormatUintHex(remnant) \o <<")">>
    ELSE IF remnant = {} THEN <<"0">>
         ELSE <<"0", "x">> \o FormatUintHex(remnant)

\* ScanStep with a slip: a piece is put before the pieces found so far
ScanStep_Prepend(acc, value, form, data) ==
    IF (value \cap data.Bit) # {}
    THEN LET str == Fn1(form, data)
         IN IF str = <<>> THEN [acc EXCEPT !.remnant = @ \cup data.Bit]
            ELSE [acc EXCEPT !.pieces = <<str>> \o @]
    ELSE acc

\* the callback toStringImpl gives to ForEach, for the slot data
ScanStep(acc, value, form, data) ==
    IF (value \cap data.Bit) # {}
    THEN LET str == Fn1(form, data)
         IN IF str = <<>> THEN [acc EXCEPT !.remnant = @ \cup data.Bit]
            ELSE [acc EXCEPT !.pieces = Append(@, str)]
    ELSE acc

\* ForEach: the 64 entries of Data in ascending index order
ForEach(b) == [i \in 1..NumBits |-> b.Data[i - 1]]

\* ForEach with the callback of toStringImpl: the pieces and the remnant
\* when the scan ends.  The callback leaves both as they are at a slot whose
\* bit is clear in value, so the scan is the callback run, in the order of
\* ForEach, over the slots whose bit is set.
Scan(b, value, form) ==
    LET set == SelectSeq(ForEach(b), LAMBDA data : (value \cap data.Bit) # {})
        loop[n \in 0..Len(set)] ==
            IF n = 0 THEN [pieces |-> <<>>, remnant |-> {}]
            ELSE ScanStep(loop[n - 1], value, form, set[n])
    IN loop[Len(set)]

\* the pieces toStringImpl joins
toStringPieces(b, value, form) ==
    LET acc == Scan(b, value, form)
    IN IF acc.remnant # {} \/ Len(acc.pieces) = 0
       THEN LET str == Fn2(b, form, acc.remnant)
            IN IF str # <<>> THEN Append(acc.pieces, str) ELSE acc.pieces
       ELSE acc.pieces

toStringImpl(b, value, form) == Join(toStringPieces(b, value, form), <<"|">>)

ToGoString(b, value) == toStringImpl(b, value, "go")

ToString(b, value) == toStringImpl(b, value, "str")

ToJSON(b, value) == [raw |-> JSONMarshalString(ToString(b, value)), err |-> NoError]

\* the string parseItem looks up: str, or str[i:j] when str has the prefix
\* Type + "(" and the suffix ")", where i is len(strSuffix)
Unwrap(b, str) ==
    LET strPrefix == b.Type \o <<"(">>
        strSuffix == <<")">>
    IN IF HasPrefix(str, strPrefix) /\ HasSuffix(str, strSuffix)
       THEN LET i == Len(strSuffix)
                j == Len(str) - Len(strSuffix)
            IN Slice(str, i, j)
       ELSE str

\* parseItem with a slip: no second lookup, of the lower-case form
parseItem_CaseSensitive(b, str0) ==
    LET str == Unwrap(b, str0)
    IN IF str \in DOMAIN b.ByName
       THEN [u64 |-> b.Data[b.ByName[str]].Bit, ok |-> TRUE]
       ELSE IF str = <<"0">> THEN [u64 |-> {}, ok |-> TRUE]
       ELSE LET r == ParseUint(str, 0)
            IN IF r.ok THEN [u64 |-> r.u, ok |-> TRUE]
               ELSE [u64 |-> {}, ok |-> FALSE]

parseItem(b, str0) ==
    LET str == Unwrap(b, str0)
        strLower == ToLower(str)
    IN IF str \in DOMAIN b.ByName
       THEN [u64 |-> b.Data[b.ByName[str]].Bit, ok |-> TRUE]
       ELSE IF strLower \in DOMAIN b.ByName
       THEN [u64 |-> b.Data[b.ByName[strLower]].Bit, ok |-> TRUE]
       ELSE IF str = <<"0">> THEN [u64 |-> {}, ok |-> TRUE]
       ELSE LET r == ParseUint(str, 0)
            IN IF r.ok THEN [u64 |-> r.u, ok |-> TRUE]
               ELSE [u64 |-> {}, ok |-> FALSE]

\* ParsePieces with a slip: the loop ends at the first piece that fails
ParsePieces_StopAtFirst(b, pieces) ==
    LET loop[n \in 0..Len(pieces)] ==
            IF n = 0 THEN [accum |-> {}, errors |-> <<>>]
            ELSE LET prev == loop[n - 1]
                     piece == pieces[n]
                     r == parseItem(b, piece)
                 IN IF prev.errors # <<>> THEN prev
                    ELSE IF r.ok THEN [prev EXCEPT !.accum = @ \cup r.u64]
                    ELSE [prev EXCEPT !.errors =
                             Append(@, InvalidBitfieldNameError(b.Type, piece, b.Names))]
    IN loop[Len(pieces)]

\* the loop of FromString over the pieces: accum and errors at its end
ParsePieces(b, pieces) ==
    LET loop[n \in 0..Len(pieces)] ==
            IF n = 0 THEN [accum |-> {}, errors |-> <<>>]
            ELSE LET prev == loop[n - 1]
                     piece == pieces[n]
                     r == parseItem(b, piece)
                 IN IF r.ok THEN [prev EXCEPT !.accum = @ \cup r.u64]
                    ELSE [prev EXCEPT !.errors =
                             Append(@, InvalidBitfieldNameError(b.Type, piece, b.Names))]
    IN loop[Len(pieces)]

FromString(b, str) ==
    LET whole == parseItem(b, str) IN
    IF whole.ok THEN [value |-> whole.u64, err |-> NoError]
    ELSE LET r == ParsePieces(b, Split(str, "|")) IN
         IF Len(r.errors) = 0 THEN [value |-> r.accum, err |-> NoError]
         ELSE IF Len(r.errors) = 1 THEN [value |-> {}, err |-> r.errors[1]]
         ELSE [value |-> {}, err |-> MultiError(r.errors)]

\* FromJSON with a slip: raw that is no JSON string is not tried as a number
FromJSON_NoNumber(b, raw) ==
    IF raw = NilBytes THEN [value |-> {}, err |-> NilBytesPanic]
    ELSE IF raw = nullBytes THEN [value |-> {}, err |-> IsNullError]
    ELSE LET s == JSONUnmarshalString(raw) IN
         IF s.err = NoError THEN FromString(b, s.str)
         ELSE [value |-> {}, err |-> s.err]

FromJSON(b, raw) ==
    IF raw = NilBytes THEN [value |-> {}, err |-> NilBytesPanic]
    ELSE IF raw = nullBytes THEN [value |-> {}, err |-> IsNullError]
    ELSE LET s == JSONUnmarshalString(raw) IN
         IF s.err = NoError THEN FromString(b, s.str)
         ELSE LET n == JSONUnmarshalUint(raw) IN
              IF n.err = NoError THEN [value |-> n.num, err |-> NoError]
              ELSE [value |-> {}, err |-> s.err]

-----------------------------------------------------------------------------
(* The enum table helpers.                                                 *)

EnumData(goName, name, json, aliases) ==
    [GoName |-> goName, Name |-> name, JSON |-> json, Aliases |-> aliases]

RECURSIVE MakeAllowedEnumNames(_)
MakeAllowedEnumNames(enumData) ==
    IF enumData = <<>> THEN <<>>
    ELSE <<Head(enumData).Name>> \o MakeAllowedEnumNames(Tail(enumData))

\* DereferenceEnumData: the row, or the panic value
DereferenceEnumData(enumName, enumData, value) ==
    LET limit == Len(enumData) IN
    IF UintGE(value, limit)
    THEN [row |-> EnumData(<<>>, <<>>, NilBytes, <<>>),
          err |-> [kind |-> "panic",
                   Value |-> InvalidEnumValueError(enumName, value, NatToBits(limit))]]
    ELSE [row |-> enumData[CHOOSE i \in 1..limit : NatToBits(i - 1) = value],
          err |-> NoError]

MarshalEnumToJSON(enumName, enumData, value) ==
    LET d == DereferenceEnumData(enumName, enumData, value) IN
    IF d.err # NoError THEN [raw |-> NilBytes, err |-> d.err]
    ELSE IF d.row.JSON = NilBytes
         THEN [raw |-> JSONMarshalString(d.row.Name), err |-> NoError]
         ELSE [raw |-> d.row.JSON, err |-> NoError]

\* RowMatches with a slip: the aliases are not compared
RowMatches_NoAlias(row, str) ==
    \/ EqualFold(str, row.Name)
    \/ EqualFold(str, row.GoName)

\* whether str matches a row of the table in ParseEnum
RowMatches(row, str) ==
    \/ EqualFold(str, row.Name)
    \/ EqualFold(str, row.GoName)
    \/ \E a \in 1..Len(row.Aliases) : EqualFold(str, row.Aliases[a])

ParseEnum(enumName, enumData, str) ==
    IF \E i \in 1..Len(enumData) : RowMatches(enumData[i], str)
    THEN LET index == CHOOSE i \in 1..Len(enumData) :
                          /\ RowMatches(enumData[i], str)
                          /\ \A k \in 1..(i - 1) : ~RowMatches(enumData[k], str)
         IN [value |-> NatToBits(index - 1), err |-> NoError]
    ELSE [value |-> {},
          err |-> InvalidEnumNameError(enumName, str, MakeAllowedEnumNames(enumData))]

\* whether raw is the explicit JSON literal of row
LiteralMatches(row, raw) == row.JSON # NilBytes /\ raw = row.JSON

\* UnmarshalEnumFromJSON after its checks for nil and for null: the scan
\* for an explicit literal, then the string, then the number
UnmarshalEnumValue(enumName, enumData, raw) ==
    IF \E i \in 1..Len(enumData) : LiteralMatches(enumData[i], raw)
    THEN LET index == CHOOSE i \in 1..Len(enumData) :
                          /\ LiteralMatches(enumData[i], raw)
                          /\ \A k \in 1..(i - 1) : ~LiteralMatches(enumData[k], raw)
         IN [value |-> NatToBits(index - 1), err |-> NoError]
    ELSE LET s == JSONUnmarshalString(raw) IN
         IF s.err = NoError THEN ParseEnum(enumName, enumData, s.str)
         ELSE LET n == JSONUnmarshalUint(raw)
                  limit == Len(enumData)
              IN IF n.err = NoError /\ UintGE(n.num, limit)
                 THEN [value |-> {},
                       err |-> InvalidEnumValueError(enumName, n.num, NatToBits(limit))]
                 ELSE IF n.err = NoError THEN [value |-> n.num, err |-> NoError]
                 ELSE [value |-> {}, err |-> s.err]

\* UnmarshalEnumFromJSON with a slip: no check for null before the scan
UnmarshalEnumFromJSON_NoNullCheck(enumName, enumData, raw) ==
    IF raw = NilBytes THEN [value |-> {}, err |-> NilBytesPanic]
    ELSE UnmarshalEnumValue(enumName, enumData, raw)

UnmarshalEnumFromJSON(enumName, enumData, raw) ==
    IF raw = NilBytes THEN [value |-> {}, err |-> NilBytesPanic]
    ELSE IF raw = nullBytes THEN [value |-> {}, err |-> IsNullError]
    ELSE UnmarshalEnumValue(enumName, enumData, raw)

-----------------------------------------------------------------------------
(* Inputs: the tables and arguments the operations are applied to.         *)

TypeNames == {<<"T">>, <<>>}

EnumName == <<"E">>

\* the descriptors a table is drawn from
BitPool ==
    { ZeroBitfieldData,
      \* unnamed although it has an alias
      BitfieldData(<<>>, <<>>, << <<"q">> >>),
      BitfieldData(<<"R","D">>, <<"R","d">>, << <<"r">> >>),
      BitfieldData(<<"W","R">>, <<"w","r">>, <<>>),
      \* a symbolic name and no display name
      BitfieldData(<<"E","X">>, <<>>, <<>>),
      \* a display name and no symbolic name; equal to "Rd" ignoring case
      BitfieldData(<<>>, <<"r","d">>, <<>>),
      \* keys that read as a wrapped token, a number and a composite
      BitfieldData(<<"T","(","z",")">>, <<"0","x","1">>, << <<"a","|","b">> >>) }

\* the rows an enum table is drawn from
EnumPool ==
    { EnumData(<<"R","D">>, <<"R","d">>, NilBytes, << <<"r">> >>),
      EnumData(<<"W","R">>, <<"w",Quote>>, NilBytes, <<>>),
      \* an explicit literal equal to the JSON form of the row named "Rd"
      EnumData(<<"E","X">>, <<"e","x">>, <<Quote,"R","d",Quote>>, <<>>),
      \* an explicit literal that is a number; an alias equal to "Rd"
      \* ignoring case
      EnumData(<<"N">>, <<"n">>, <<"1">>, << <<"r","d">> >>),
      \* an explicit literal that is null
      EnumData(<<"Z">>, <<"z">>, nullBytes, <<>>),
      \* an explicit literal that is empty and not nil
      EnumData(<<"V">>, <<"v">>, <<>>, <<>>) }

RECURSIVE SeqsOf(_, _)
\* the sequences of exactly n members of S
SeqsOf(S, n) ==
    IF n = 0 THEN {<<>>}
    ELSE {<<x>> \o t : x \in S, t \in SeqsOf(S, n - 1)}

\* the tables of at most MaxLen members of pool
Tables(pool) == UNION {SeqsOf(pool, n) : n \in 0..MaxLen}

Subjects ==
    {[kind |-> "bitfield", name |-> t, in |-> in, enumData |-> <<>>] :
        t \in TypeNames, in \in Tables(BitPool)}
    \cup
    {[kind |-> "enum", name |-> EnumName, in |-> <<>>, enumData |-> rows] :
        rows \in Tables(EnumPool)}

\* the bitfield values rendered: every slot a table can name, one slot
\* beyond them, and the top bit
Values == SUBSET ((0..MaxLen) \cup {NumBits - 1})

\* the enum ordinals marshalled: in range and just out of range
Ordinals == {NatToBits(n) : n \in 0..MaxLen}

\* single tokens given to FromString and ParseEnum
Tokens ==
    { <<>>, <<"R","d">>, <<"R","D">>, <<"r","d">>, <<"r","D">>, <<"r">>, <<"R">>,
      <<"w","r">>, <<"W","r">>, <<"E","X">>, <<"e","x">>, <<"q">>,
      <<"T","(","z",")">>, <<"t","(","z",")">>, <<"a","|","b">>, <<"A","|","b">>,
      <<"0">>, <<"0","x","1">>, <<"0","X","1">>, <<"0","x","8">>, <<"8">>,
      <<"0","b","1","1">>, <<"0","1","7">>, <<"0","9">>,
      <<"T","(","0",")">>, <<"T","(","0","x","4",")">>, <<"(","0","x","4",")">>,
      <<"T","(","R","d",")">>, <<"g">>,
      \* 2^64 in hexadecimal: out of range
      <<"0","x","1","0","0","0","0","0","0","0","0","0","0","0","0","0","0","0","0">> }

\* the pieces composite strings are joined from: two names, two strings
\* that are no name, and a number
PieceTokens == { <<"R","d">>, <<"W","R">>, <<"g">>, <<"h">>, <<"0","x","4">> }

Composites ==
    {Join(ps, <<"|">>) : ps \in UNION {SeqsOf(PieceTokens, n) : n \in 2..MaxPieces}}

\* bare JSON unsigned integer literals, each with the uint64 it denotes
NumberLiterals ==
    { [raw |-> <<"0">>, n |-> {}],
      [raw |-> <<"1">>, n |-> {0}],
      [raw |-> <<"2">>, n |-> {1}],
      [raw |-> <<"3">>, n |-> {0, 1}],
      [raw |-> <<"1","2">>, n |-> {2, 3}],
      \* 2^63
      [raw |-> <<"9","2","2","3","3","7","2","0","3","6","8","5","4","7","7","5","8","0","8">>,
       n |-> {63}] }

\* raw JSON given to FromJSON and UnmarshalEnumFromJSON
Raws ==
    {l.raw : l \in NumberLiterals}
    \cup
    { NilBytes, nullBytes, <<>>, <<"{">>, <<"0","1">>,
      \* 2^64: a number that is out of range
      <<"1","8","4","4","6","7","4","4","0","7","3","7","0","9","5","5","1","6","1","6">>,
      <<Quote,"R","d",Quote>>, <<Quote,"r","D",Quote>>, <<Quote,"g",Quote>>,
      <<Quote,"w",Backslash,Quote,Quote>>, <<Quote,"w",Quote,Quote>>,
      <<Quote,"R","d","|","W","R",Quote>>, <<Quote,"R","d","|","g","|","h",Quote>>,
      <<Quote,"0","x","8",Quote>>, <<Quote,"n","u","l","l",Quote>> }

-----------------------------------------------------------------------------
(* The state machine.  subject is the table under test and stays as drawn; *)
(* bitfield is the BitfieldType built from it; call is the last call made  *)
(* and what it returned.                                                   *)

NoCall == [op |-> "none", arg |-> <<>>, ret |-> <<>>]

Init ==
    /\ subject \in Subjects
    /\ bitfield = ZeroBitfieldType
    /\ call = NoCall

Built == DOMAIN bitfield.Data # {}

\* No call has been made yet.  Every operation is a pure function of the
\* table and its arguments and leaves the table as it is, so what a call
\* returns does not depend on the calls before it: a behaviour builds the
\* table and makes one call.
Idle == call.op \in {"none", "MakeBitfieldType"}

CallMakeBitfieldType ==
    /\ subject.kind = "bitfield"
    /\ ~Built
    /\ bitfield' = MakeBitfieldType(subject.name, subject.in)
    /\ call' = [op |-> "MakeBitfieldType", arg |-> <<>>, ret |-> <<>>]
    /\ UNCHANGED subject

CallToGoString ==
    /\ Built
    /\ Idle
    /\ \E value \in Values :
          call' = [op |-> "ToGoString", arg |-> value, ret |-> ToGoString(bitfield, value)]
    /\ UNCHANGED <<subject, bitfield>>

CallToString ==
    /\ Built
    /\ Idle
    /\ \E value \in Values :
          call' = [op |-> "ToString", arg |-> value, ret |-> ToString(bitfield, value)]
    /\ UNCHANGED <<subject, bitfield>>

CallToJSON ==
    /\ Built
    /\ Idle
    /\ \E value \in Values :
          call' = [op |-> "ToJSON", arg |-> value, ret |-> ToJSON(bitfield, value)]
    /\ UNCHANGED <<subject, bitfield>>

CallFromString ==
    /\ Built
    /\ Idle
    /\ \E str \in Tokens \cup Composites :
          call' = [op |-> "FromString", arg |-> str, ret |-> FromString(bitfield, str)]
    /\ UNCHANGED <<subject, bitfield>>

CallFromJSON ==
    /\ Built
    /\ Idle
    /\ \E raw \in Raws :
          call' = [op |-> "FromJSON", arg |-> raw, ret |-> FromJSON(bitfield, raw)]
    /\ UNCHANGED <<subject, bitfield>>

CallMarshalEnumToJSON ==
    /\ subject.kind = "enum"
    /\ Idle
    /\ \E value \in Ordinals :
          call' = [op |-> "MarshalEnumToJSON", arg |-> value,
                   ret |-> MarshalEnumToJSON(subject.name, subject.enumData, value)]
    /\ UNCHANGED <<subject, bitfield>>

CallParseEnum ==
    /\ subject.kind = "enum"
    /\ Idle
    /\ \E str \in Tokens :
          call' = [op |-> "ParseEnum", arg |-> str,
                   ret |-> ParseEnum(subject.name, subject.enumData, str)]
    /\ UNCHANGED <<subject, bitfield>>

CallUnmarshalEnumFromJSON ==
    /\ subject.kind = "enum"
    /\ Idle
    /\ \E raw \in Raws :
          call' = [op |-> "UnmarshalEnumFromJSON", arg |-> raw,
                   ret |-> UnmarshalEnumFromJSON(subject.name, subject.enumData, raw)]
    /\ UNCHANGED <<subject, bitfield>>

Next ==
    \/ CallMakeBitfieldType
    \/ CallToGoString
    \/ CallToString
    \/ CallToJSON
    \/ CallFromString
    \/ CallFromJSON
    \/ CallMarshalEnumToJSON
    \/ CallParseEnum
    \/ CallUnmarshalEnumFromJSON

Spec == Init /\ [][Next]_vars

-----------------------------------------------------------------------------
(* Vocabulary of the properties.                                           *)

\* a slot is used (named) when it has a symbolic or a display name
Named(data) == data.GoName # <<>> \/ data.Name # <<>>

UsedSlots(b) == {i \in 0..(NumBits - 1) : Named(b.Data[i])}

\* the names a used slot registers: symbolic name, display name, aliases
KeysOf(data) ==
    ({data.GoName, data.Name} \ {<<>>})
    \cup {data.Aliases[a] : a \in 1..Len(data.Aliases)}

RegisteredKeys(b) == UNION {KeysOf(b.Data[i]) : i \in UsedSlots(b)}

\* k equals a key of the slot, ignoring letter case
MatchesKey(data, k) == \E key \in KeysOf(data) : ToLower(key) = ToLower(k)

\* no two used slots have keys that are equal ignoring letter case
NoSharedKeys(b) ==
    \A i \in UsedSlots(b) : \A j \in UsedSlots(b) \ {i} :
        \A k1 \in KeysOf(b.Data[i]) : ~MatchesKey(b.Data[j], k1)

\* k has the form "<TypeName>(...)"
Wrapped(b, k) == HasPrefix(k, b.Type \o <<"(">>) /\ HasSuffix(k, <<")">>)

\* the keys of the type are distinct and plain: no two used slots share a
\* key ignoring letter case, and no key holds '|', is "0", parses as an unsigned integer literal or has
\* the form "<TypeName>(...)"
PlainKeys(b) ==
    /\ NoSharedKeys(b)
    /\ \A k \in RegisteredKeys(b) :
          /\ \A n \in 1..Len(k) : k[n] # "|"
          /\ k # <<"0">>
          /\ ~ParseUint(k, 0).ok
          /\ ~Wrapped(b, k)

Min(S) == CHOOSE x \in S : \A y \in S : x <= y

\* the name a rendering uses: symbolic for ToGoString, display for ToString
NameFor(form, data) == IF form = "go" THEN data.GoName ELSE data.Name

FormOf(op) == IF op = "ToGoString" THEN "go" ELSE "str"

RECURSIVE NamesAscending(_, _, _)
\* the names of the slots S, by ascending index
NamesAscending(b, S, form) ==
    IF S = {} THEN <<>>
    ELSE <<NameFor(form, b.Data[Min(S)])>> \o NamesAscending(b, S \ {Min(S)}, form)

\* The rendering of value when the set bits `emitting` each give a piece
\* and the other set bits make the remnant: the pieces by ascending index,
\* then the remnant token iff the remnant is nonzero or there is no piece,
\* all joined with '|'.
Rendering(b, value, form, emitting) ==
    LET names == NamesAscending(b, emitting, form)
        remnant == value \ emitting
    IN Join(IF remnant # {} \/ names = <<>>
            THEN Append(names, Fn2(b, form, remnant))
            ELSE names, <<"|">>)

RECURSIVE CanonicalOf(_, _)
CanonicalOf(b, S) ==
    IF S = {} THEN <<>>
    ELSE LET data == b.Data[Min(S)]
         IN <<IF data.Name # <<>> THEN data.Name ELSE data.GoName>>
            \o CanonicalOf(b, S \ {Min(S)})

\* the canonical names of the used slots, by ascending index
CanonicalNames(b) == CanonicalOf(b, UsedSlots(b))

\* n is an ordinal of a table of count rows
InRange(n, count) == \E k \in 0..(count - 1) : NatToBits(k) = n

Returned(value) == [value |-> value, err |-> NoError]

-----------------------------------------------------------------------------
(* The properties.                                                         *)

\* C1: for every bitfield type and every value v, FromString(ToGoString(v))
\* returns v with no error, also when v is 0 ("<TypeName>(0)") and when v
\* has bits in unnamed slots ("<TypeName>(0x<hex>)").  Stated for the types
\* whose keys are distinct and plain, where no choice of names stands in
\* the way of the round trip.
C1_SymbolicRoundTrip ==
    (call.op = "ToGoString" /\ PlainKeys(bitfield)) =>
        FromString(bitfield, call.ret) = Returned(call.arg)

\* C2, as claimed: ToGoString(v) and ToString(v) emit, by ascending bit
\* index, one piece for each set bit whose slot has a symbolic or a
\* display name; only the set bits whose slot has neither name make the
\* remnant; the remnant token comes last, iff the remnant is nonzero or
\* there is no piece; the pieces are joined with '|'.
C2_PieceForEveryNamedSlot ==
    call.op \in {"ToGoString", "ToString"} =>
        call.ret = Rendering(bitfield, call.arg, FormOf(call.op),
                             {i \in call.arg : Named(bitfield.Data[i])})

\* C2, amended: a set bit gives a piece iff its slot has the name of the
\* rendering (the symbolic name for ToGoString, the display name for
\* ToString); every other set bit, also that of a slot which has only the
\* other name, is in the remnant.
C2_PieceForEveryRenderedName ==
    call.op \in {"ToGoString", "ToString"} =>
        call.ret = Rendering(bitfield, call.arg, FormOf(call.op),
                             {i \in call.arg :
                                 NameFor(FormOf(call.op), bitfield.Data[i]) # <<>>})

\* C2, witness: ToString of a value with a bit in a slot that has a display
\* name, a bit in a slot that has a symbolic name only, and a bit in an
\* unnamed slot.
C2_Witness ==
    /\ call.op = "ToString"
    /\ \E i \in call.arg : \E j \in call.arg : \E k \in call.arg :
          /\ i < j
          /\ bitfield.Data[i].Name # <<>>
          /\ bitfield.Data[j].GoName # <<>> /\ bitfield.Data[j].Name = <<>>
          /\ ~Named(bitfield.Data[k])

\* C3, as claimed: for every used slot s and every string k that equals,
\* ignoring letter case, a key of s, FromString(k) returns the mask of s;
\* and two strings that differ only in letter case give the same value.
C3_CaseInsensitiveLookup ==
    call.op = "FromString" =>
        /\ \A i \in UsedSlots(bitfield) :
              MatchesKey(bitfield.Data[i], call.arg) => call.ret = Returned({i})
        /\ \A k2 \in Tokens \cup Composites :
              ToLower(k2) = ToLower(call.arg) =>
                  LET r2 == FromString(bitfield, k2)
                  IN /\ r2.value = call.ret.value
                     /\ (r2.err = NoError) = (call.ret.err = NoError)

\* C3, amended: in a type no two used slots of which share a key ignoring
\* letter case, for every used slot s and every string k that equals,
\* ignoring letter case, a key of s and is not of the form
\* "<TypeName>(...)", FromString(k) returns the mask of s.
C3_CaseInsensitiveLookupOfDistinctKeys ==
    (/\ call.op = "FromString"
     /\ NoSharedKeys(bitfield)
     /\ ~Wrapped(bitfield, call.arg)) =>
        \A i \in UsedSlots(bitfield) :
            MatchesKey(bitfield.Data[i], call.arg) => call.ret = Returned({i})

\* C3, witness: a string that is a key of a slot only after case folding
\* (neither it nor its lower-case form is the key as given), resolved to
\* the slot, in a type with two used slots and no shared key.
C3_Witness ==
    /\ call.op = "FromString"
    /\ NoSharedKeys(bitfield)
    /\ ~Wrapped(bitfield, call.arg)
    /\ Cardinality(UsedSlots(bitfield)) >= 2
    /\ call.arg \notin DOMAIN bitfield.ByName
    /\ \E i \in UsedSlots(bitfield) :
          /\ MatchesKey(bitfield.Data[i], call.arg)
          /\ ToLower(call.arg) \notin KeysOf(bitfield.Data[i])
          /\ call.ret = Returned({i})

\* C4, as claimed: after MakeBitfieldType, for any descriptor sequence,
\* every used slot is the target of at least one key of ByName, and every
\* key of ByName maps to a used slot.
C4_IndexOntoUsedSlots ==
    Built =>
        /\ \A i \in UsedSlots(bitfield) :
              \E k \in DOMAIN bitfield.ByName : bitfield.ByName[k] = i
        /\ \A k \in DOMAIN bitfield.ByName :
              bitfield.ByName[k] \in UsedSlots(bitfield)

\* C4, amended: every key of ByName maps to a used slot; and when no two
\* used slots share a key ignoring letter case, every used slot is the
\* target of at least one key.
C4_IndexOntoUsedSlotsOfDistinctKeys ==
    Built =>
        /\ NoSharedKeys(bitfield) =>
              \A i \in UsedSlots(bitfield) :
                  \E k \in DOMAIN bitfield.ByName : bitfield.ByName[k] = i
        /\ \A k \in DOMAIN bitfield.ByName :
              bitfield.ByName[k] \in UsedSlots(bitfield)

\* C4, witness: MakeBitfieldType has returned a type with two used slots
\* that share no key.
C4_Witness ==
    /\ call.op = "MakeBitfieldType"
    /\ Built
    /\ NoSharedKeys(bitfield)
    /\ Cardinality(UsedSlots(bitfield)) >= 2

\* C5: when FromString(str) cannot resolve str as one token, it splits str
\* on '|' and resolves every piece.  It returns the OR of the piece values
\* and no error iff every piece resolves; value 0 and the one
\* InvalidBitfieldNameError when one piece fails; value 0 and a combined
\* error with one InvalidBitfieldNameError per failing piece, in input
\* order, when more fail.  Each error has the type name, the piece, and
\* the canonical names of the used slots by ascending index.
C5_EveryBadPieceReported ==
    (call.op = "FromString" /\ ~parseItem(bitfield, call.arg).ok) =>
        LET pieces == Split(call.arg, "|")
            bad == SelectSeq(pieces, LAMBDA p : ~parseItem(bitfield, p).ok)
            errorOf(p) ==
                InvalidBitfieldNameError(bitfield.Type, p, CanonicalNames(bitfield))
        IN IF bad = <<>>
           THEN call.ret = Returned(UNION {parseItem(bitfield, pieces[n]).u64 :
                                              n \in 1..Len(pieces)})
           ELSE IF Len(bad) = 1
           THEN call.ret = [value |-> {}, err |-> errorOf(bad[1])]
           ELSE /\ call.ret.value = {}
                /\ call.ret.err.kind = "multierror.Error"
                /\ Len(call.ret.err.Errors) = Len(bad)
                /\ \A n \in 1..Len(bad) : call.ret.err.Errors[n] = errorOf(bad[n])

\* C5, witness: a composite string with two different failing pieces, both
\* reported.
C5_Witness ==
    /\ call.op = "FromString"
    /\ call.ret.err.kind = "multierror.Error"
    /\ Len(call.ret.err.Errors) = 2
    /\ call.ret.err.Errors[1].Name # call.ret.err.Errors[2].Name
    /\ UsedSlots(bitfield) # {}

\* C6, as claimed: for raw a bare JSON unsigned integer n, FromJSON returns
\* n and no error; UnmarshalEnumFromJSON, for any row table, returns n and
\* no error when n < row count and fails with
\* InvalidEnumValueError{Value: n, Limit: row count} when n >= row count.
C6_BareInteger ==
    \A l \in NumberLiterals :
        /\ (call.op = "FromJSON" /\ call.arg = l.raw) => call.ret = Returned(l.n)
        /\ (call.op = "UnmarshalEnumFromJSON" /\ call.arg = l.raw) =>
              call.ret =
                  IF InRange(l.n, Len(subject.enumData)) THEN Returned(l.n)
                  ELSE [value |-> {},
                        err |-> InvalidEnumValueError(subject.name, l.n,
                                    NatToBits(Len(subject.enumData)))]

\* C6, amended: the same, for UnmarshalEnumFromJSON provided that no row
\* has an explicit JSON literal byte-equal to raw.
C6_BareIntegerNoLiteralRow ==
    \A l \in NumberLiterals :
        /\ (call.op = "FromJSON" /\ call.arg = l.raw) => call.ret = Returned(l.n)
        /\ (/\ call.op = "UnmarshalEnumFromJSON"
            /\ call.arg = l.raw
            /\ \A i \in 1..Len(subject.enumData) :
                  ~LiteralMatches(subject.enumData[i], l.raw)) =>
              call.ret =
                  IF InRange(l.n, Len(subject.enumData)) THEN Returned(l.n)
                  ELSE [value |-> {},
                        err |-> InvalidEnumValueError(subject.name, l.n,
                                    NatToBits(Len(subject.enumData)))]

\* C6, witness: UnmarshalEnumFromJSON of a bare integer equal to the row
\* count of a table that has a row with another number as its literal.
C6_Witness ==
    /\ call.op = "UnmarshalEnumFromJSON"
    /\ \E l \in NumberLiterals :
          /\ call.arg = l.raw
          /\ l.n = NatToBits(Len(subject.enumData))
    /\ \E i \in 1..Len(subject.enumData) :
          JSONKind(subject.enumData[i].JSON) = "number"
    /\ call.ret.err.kind = "InvalidEnumValueError"

\* C7: ParseEnum returns the ordinal of the first row of which str equals,
\* ignoring letter case, the display name, the symbolic name or an alias;
\* it fails with InvalidEnumNameError (Name = str, Allowed = the display
\* name of every row, in ordinal order) exactly when there is no such row.
C7_FirstMatchingRow ==
    call.op = "ParseEnum" =>
        LET rows == subject.enumData
            names(row) == {row.Name, row.GoName}
                          \cup {row.Aliases[a] : a \in 1..Len(row.Aliases)}
            matching == {i \in 1..Len(rows) :
                            \E n \in names(rows[i]) : ToLower(n) = ToLower(call.arg)}
        IN IF matching # {}
           THEN call.ret = Returned(NatToBits(Min(matching) - 1))
           ELSE /\ call.ret.value = {}
                /\ call.ret.err.kind = "InvalidEnumNameError"
                /\ call.ret.err.Type = subject.name
                /\ call.ret.err.Name = call.arg
                /\ Len(call.ret.err.Allowed) = Len(rows)
                /\ \A i \in 1..Len(rows) : call.ret.err.Allowed[i] = rows[i].Name

\* C7, witness: a string that matches the second row only, by an alias and
\* only after case folding.
C7_Witness ==
    /\ call.op = "ParseEnum"
    /\ Len(subject.enumData) >= 2
    /\ call.ret = Returned(NatToBits(1))
    /\ LET row == subject.enumData[2]
       IN /\ ~EqualFold(call.arg, row.Name)
          /\ ~EqualFold(call.arg, row.GoName)
          /\ \A a \in 1..Len(row.Aliases) : call.arg # row.Aliases[a]

\* C8: for FromJSON and for UnmarshalEnumFromJSON, raw equal to the literal
\* null yields IsNullError and the value 0, whatever the table holds (also
\* an enum row whose explicit literal is null), and IsNull is true of the
\* error.
C8_Null ==
    (call.op \in {"FromJSON", "UnmarshalEnumFromJSON"} /\ call.arg = nullBytes) =>
        /\ call.ret.value = {}
        /\ call.ret.err = IsNullError
        /\ IsNull(call.ret.err)

\* C8, witness: UnmarshalEnumFromJSON of null on a table with a row whose
\* explicit literal is null.
C8_Witness ==
    /\ call.op = "UnmarshalEnumFromJSON"
    /\ call.arg = nullBytes
    /\ \E i \in 1..Len(subject.enumData) : subject.enumData[i].JSON = nullBytes

\* C9: for a type whose keys are distinct and plain and every value v, FromString(ToString(v)) returns
\* v with no error, also for bits of unnamed slots and of slots that have
\* a symbolic name and no display name.
C9_DisplayRoundTrip ==
    (call.op = "ToString" /\ PlainKeys(bitfield)) =>
        FromString(bitfield, call.ret) = Returned(call.arg)

\* C9, witness: ToString, in such a type, of a value with a bit in a slot
\* with a display name, a bit in a slot with a symbolic name only, and the
\* top bit, in an unnamed slot.
C9_Witness ==
    /\ call.op = "ToString"
    /\ PlainKeys(bitfield)
    /\ (NumBits - 1) \in call.arg
    /\ \E i \in call.arg : \E j \in call.arg :
          /\ bitfield.Data[i].Name # <<>>
          /\ bitfield.Data[j].GoName # <<>> /\ bitfield.Data[j].Name = <<>>

\* the row of ordinal v (a uint) in rows
RowOf(rows, v) == rows[CHOOSE k \in 1..Len(rows) : NatToBits(k - 1) = v]

Below(rows, v) == {k \in 1..Len(rows) : \E m \in (k + 1)..Len(rows) : NatToBits(m - 1) = v}

\* a row below v has a display name, symbolic name or alias equal to the
\* display name of row v ignoring letter case
NameTakenBelow(rows, v) ==
    \E k \in Below(rows, v) :
        \/ ToLower(rows[k].Name) = ToLower(RowOf(rows, v).Name)
        \/ ToLower(rows[k].GoName) = ToLower(RowOf(rows, v).Name)
        \/ \E a \in 1..Len(rows[k].Aliases) :
              ToLower(rows[k].Aliases[a]) = ToLower(RowOf(rows, v).Name)

\* C10, as claimed: for every ordinal v < row count,
\* UnmarshalEnumFromJSON(MarshalEnumToJSON(v)) returns v with no error,
\* provided the JSON form of row v is not null, no row below v has an
\* explicit literal byte-equal to it, and (when row v has no explicit
\* literal) no row below v has a name equal to the display name of row v
\* ignoring letter case.
C10_EnumRoundTrip ==
    LET rows == subject.enumData
        v == call.arg
        form == call.ret.raw
    IN (/\ call.op = "MarshalEnumToJSON"
        /\ InRange(v, Len(rows))
        /\ form # nullBytes
        /\ \A k \in Below(rows, v) : ~LiteralMatches(rows[k], form)
        /\ (RowOf(rows, v).JSON = NilBytes => ~NameTakenBelow(rows, v))) =>
           UnmarshalEnumFromJSON(subject.name, rows, form) = Returned(v)

\* C10, amended: the literal condition is on the rows below v when row v
\* has an explicit literal, and on every row when it has none.
C10_EnumRoundTripNoLiteralElsewhere ==
    LET rows == subject.enumData
        v == call.arg
        form == call.ret.raw
    IN (/\ call.op = "MarshalEnumToJSON"
        /\ InRange(v, Len(rows))
        /\ form # nullBytes
        /\ \A k \in Below(rows, v) : ~LiteralMatches(rows[k], form)
        /\ (RowOf(rows, v).JSON = NilBytes =>
               /\ \A k \in 1..Len(rows) : ~LiteralMatches(rows[k], form)
               /\ ~NameTakenBelow(rows, v))) =>
           UnmarshalEnumFromJSON(subject.name, rows, form) = Returned(v)

\* C10, witness: the second row, which has no explicit literal and a
\* display name that JSON escapes, marshalled in a table whose first row
\* has an explicit literal.
C10_Witness ==
    /\ call.op = "MarshalEnumToJSON"
    /\ call.arg = NatToBits(1)
    /\ Len(subject.enumData) >= 2
    /\ subject.enumData[2].JSON = NilBytes
    /\ \E n \in 1..Len(subject.enumData[2].Name) : subject.enumData[2].Name[n] = Quote
    /\ subject.enumData[1].JSON # NilBytes
    /\ call.ret.err = NoError

=============================================================================
